---- MODULE Spec2Model ----
(***************************************************************************)
(* A model of repl.cpp: the lexer (tokenize), the recursive-descent parser *)
(* (parseHead / parseTail), the union-find solver (UnionFind), the type    *)
(* inference pass (typecheck) and the read loop (main).                    *)
(*                                                                         *)
(* Program strings are TLA+ strings; a character is a string of length 1.  *)
(* Tokens and AST nodes are records that keep the field names of the       *)
(* structs (val, n1, n2, n3, number) and carry the string returned by      *)
(* getType() in the field "type".                                          *)
(***************************************************************************)
EXTENDS Integers, Sequences, FiniteSets, TLC

VARIABLES
    pc,                   \* position of the program
    cin,                  \* std::cin: the lines not read yet and the stream state
    line,                 \* main: line
    tokens,               \* main: tokens
    root,                 \* main: ast_root / typecheck: root
    counter,              \* typecheck: counter
    variable_number_map,  \* typecheck: variable_number_map
    constraints,          \* typecheck: constraints
    ci,                   \* typecheck: position of the range-for over constraints
    prev,                 \* UnionFind::prev
    ret,                  \* typecheck: ret / main: variable_type_map
    out,                  \* the lines written to std::cout
    err                   \* the lines written to std::cerr

vars == <<pc, cin, line, tokens, root, counter, variable_number_map,
          constraints, ci, prev, ret, out, err>>

-----------------------------------------------------------------------------
(* Bounds of the model *)

\* number of ids of the stand-alone union-find
UFSize == 4
\* number of type variables of a stand-alone constraint list
MaxK == 2
\* length of a stand-alone constraint list
MaxCons == 2
\* number of nodes of an AST given to typecheck
MaxNodes == 5
\* number of characters of a text given to tokenize
MaxLen == 4
\* number of digits of the long numbers given to tokenize
MaxDigits == 10
\* number of lines std::cin holds
MaxLines == 2
\* number of writes to std::cout after which main's loop is cut
MaxOut == 6
\* length of a token sequence over all tokens given to parse
MaxToks == 3
\* number of nodes of an expression whose tokens are given to parse
MaxParseNodes == 4
\* number of tokens put after a complete expression given to parse
MaxTrail == 1

-----------------------------------------------------------------------------
(* UnionFind *)

\* UnionFind::UnionFind(n0): prev[i] = i
UnionFind(n0) == [k \in 0..(n0 - 1) |-> k]

\* first loop of find: walk to the root
RECURSIVE find_root(_, _)
find_root(p, r) == IF p[r] = r THEN r ELSE find_root(p, p[r])

\* second loop of find: relink every visited node to the root
RECURSIVE find_compress(_, _, _)
find_compress(p, k, r) ==
    IF p[k] = r THEN p ELSE find_compress([p EXCEPT ![k] = r], p[k], r)

find_StopsAtParent(p, x) == [r |-> p[x], prev |-> p]

\* UnionFind::find: the root returned and the array after path compression
find(p, x) ==
    LET r == find_root(p, x) IN [r |-> r, prev |-> find_compress(p, x, r)]

join_FirstSurvives(p, x, y) ==
    LET fy == find(p, y)
        fx == find(fy.prev, x)
    IN  [fx.prev EXCEPT ![fy.r] = fx.r]

\* UnionFind::join: prev[find(x)] = find(y).  Both calls of find compress
\* paths; the roots they return and the array they leave do not depend on the
\* order in which the two operands are evaluated.
join(p, x, y) ==
    LET fy == find(p, y)
        fx == find(fy.prev, x)
    IN  [fx.prev EXCEPT ![fx.r] = fy.r]

-----------------------------------------------------------------------------
(* AST nodes: new_T(...) is the node that `new T(...)` builds *)

\* Node::number before typecheck
Unassigned == -1

new_Var(val0) == [type |-> "Var", val |-> val0, number |-> Unassigned]
new_Int(val0) == [type |-> "Int", val |-> val0, number |-> Unassigned]
new_Bool(val0) == [type |-> "Bool", val |-> val0, number |-> Unassigned]
new_Sub(n10, n20) == [type |-> "Sub", n1 |-> n10, n2 |-> n20, number |-> Unassigned]
new_Mul(n10, n20) == [type |-> "Mul", n1 |-> n10, n2 |-> n20, number |-> Unassigned]
new_Div(n10, n20) == [type |-> "Div", n1 |-> n10, n2 |-> n20, number |-> Unassigned]
new_Lt(n10, n20) == [type |-> "Lt", n1 |-> n10, n2 |-> n20, number |-> Unassigned]
new_If(n10, n20, n30) ==
    [type |-> "If", n1 |-> n10, n2 |-> n20, n3 |-> n30, number |-> Unassigned]
new_Let(n10, n20, n30) ==
    [type |-> "Let", n1 |-> n10, n2 |-> n20, n3 |-> n30, number |-> Unassigned]

TwoChildren == {"Sub", "Mul", "Div", "Lt"}
ThreeChildren == {"If", "Let"}

\* dfs: the nodes in the order in which f is applied to them
RECURSIVE dfs(_)
dfs(r) ==
    IF r.type \in TwoChildren THEN <<r>> \o dfs(r.n1) \o dfs(r.n2)
    ELSE IF r.type \in ThreeChildren
         THEN <<r>> \o dfs(r.n1) \o dfs(r.n2) \o dfs(r.n3)
         ELSE <<r>>

-----------------------------------------------------------------------------
(* typecheck: numbering *)

assign_numbers_FreshPerNode(cur, c, vmap) ==
    [node |-> [cur EXCEPT !.number = c], counter |-> c + 1,
     map |-> IF cur.type = "Var" THEN (cur.val :> c) @@ vmap ELSE vmap]

\* the lambda assign_numbers applied to one node, with the counter and the
\* map it captures by reference
assign_numbers(cur, c, vmap) ==
    IF cur.type = "Var"
    THEN IF cur.val \notin DOMAIN vmap
         THEN [node |-> [cur EXCEPT !.number = c], counter |-> c + 1,
               map |-> (cur.val :> c) @@ vmap]
         ELSE [node |-> [cur EXCEPT !.number = vmap[cur.val]], counter |-> c,
               map |-> vmap]
    ELSE [node |-> [cur EXCEPT !.number = c], counter |-> c + 1, map |-> vmap]

\* dfs(root, assign_numbers): f is applied to the node, then to its children
\* from left to right
RECURSIVE dfs_assign_numbers(_, _, _)
dfs_assign_numbers(cur, c, vmap) ==
    LET s == assign_numbers(cur, c, vmap) IN
    IF cur.type \in TwoChildren
    THEN LET r1 == dfs_assign_numbers(cur.n1, s.counter, s.map)
             r2 == dfs_assign_numbers(cur.n2, r1.counter, r1.map)
         IN  [node |-> [s.node EXCEPT !.n1 = r1.node, !.n2 = r2.node],
              counter |-> r2.counter, map |-> r2.map]
    ELSE IF cur.type \in ThreeChildren
    THEN LET r1 == dfs_assign_numbers(cur.n1, s.counter, s.map)
             r2 == dfs_assign_numbers(cur.n2, r1.counter, r1.map)
             r3 == dfs_assign_numbers(cur.n3, r2.counter, r2.map)
         IN  [node |-> [s.node EXCEPT !.n1 = r1.node, !.n2 = r2.node,
                                      !.n3 = r3.node],
              counter |-> r3.counter, map |-> r3.map]
    ELSE s

-----------------------------------------------------------------------------
(* typecheck: constraints *)

\* #define INT (counter)
INT(c) == c
\* #define BOOL (counter + 1)
BOOL(c) == c + 1

generate_constraints_IfCondInt(cur, c) ==
    IF cur.type = "If"
    THEN << <<cur.number, cur.n2.number>>, <<cur.n1.number, INT(c)>>,
            <<cur.n2.number, cur.n3.number>> >>
    ELSE IF cur.type = "Let"
    THEN << <<cur.number, cur.n3.number>>, <<cur.n1.number, cur.n2.number>> >>
    ELSE IF cur.type = "Lt"
    THEN << <<cur.number, BOOL(c)>>, <<cur.n1.number, INT(c)>>,
            <<cur.n2.number, INT(c)>> >>
    ELSE IF cur.type \in {"Sub", "Mul", "Div"}
    THEN << <<cur.number, INT(c)>>, <<cur.n1.number, INT(c)>>,
            <<cur.n2.number, INT(c)>> >>
    ELSE IF cur.type = "Int" THEN << <<cur.number, INT(c)>> >>
    ELSE IF cur.type = "Bool" THEN << <<cur.number, BOOL(c)>> >>
    ELSE << >>

\* the lambda generate_constraints applied to one node: the pairs it pushes
generate_constraints(cur, c) ==
    IF cur.type = "Var" THEN << >>
    ELSE IF cur.type = "Int" THEN << <<cur.number, INT(c)>> >>
    ELSE IF cur.type = "Bool" THEN << <<cur.number, BOOL(c)>> >>
    ELSE IF cur.type = "Sub"
    THEN << <<cur.number, INT(c)>>, <<cur.n1.number, INT(c)>>,
            <<cur.n2.number, INT(c)>> >>
    ELSE IF cur.type = "Mul"
    THEN << <<cur.number, INT(c)>>, <<cur.n1.number, INT(c)>>,
            <<cur.n2.number, INT(c)>> >>
    ELSE IF cur.type = "Div"
    THEN << <<cur.number, INT(c)>>, <<cur.n1.number, INT(c)>>,
            <<cur.n2.number, INT(c)>> >>
    ELSE IF cur.type = "Lt"
    THEN << <<cur.number, BOOL(c)>>, <<cur.n1.number, INT(c)>>,
            <<cur.n2.number, INT(c)>> >>
    ELSE IF cur.type = "If"
    THEN << <<cur.number, cur.n2.number>>, <<cur.n1.number, BOOL(c)>>,
            <<cur.n2.number, cur.n3.number>> >>
    ELSE \* Let
         << <<cur.number, cur.n3.number>>, <<cur.n1.number, cur.n2.number>> >>

\* dfs(root, generate_constraints): the vector constraints after the pass
RECURSIVE dfs_generate_constraints(_, _)
dfs_generate_constraints(nodes, c) ==
    IF nodes = << >> THEN << >>
    ELSE generate_constraints(Head(nodes), c)
         \o dfs_generate_constraints(Tail(nodes), c)

-----------------------------------------------------------------------------
(* typecheck: solving *)

\* the lambda is_type_variable
is_type_variable(x, c) == x < c

solve_NoGroundPrecedence(p, c, pair) ==
    LET fx == find(p, pair[1])
        rx == fx.r
        fy == find(fx.prev, pair[2])
        ry == fy.r
        q  == fy.prev
    IN  IF is_type_variable(rx, c) \/ is_type_variable(ry, c) \/ rx = ry
        THEN [died |-> FALSE, prev |-> join(q, rx, ry), t_rx |-> "", t_ry |-> ""]
        ELSE [died |-> TRUE, prev |-> q,
              t_rx |-> IF rx = INT(c) THEN "INT" ELSE "BOOL",
              t_ry |-> IF ry = INT(c) THEN "INT" ELSE "BOOL"]

solve_DropsSwappedJoin(p, c, pair) ==
    LET fx == find(p, pair[1])
        rx == fx.r
        fy == find(fx.prev, pair[2])
        ry == fy.r
        q  == fy.prev
    IN  IF is_type_variable(rx, c)
        THEN [died |-> FALSE, prev |-> join(q, rx, ry), t_rx |-> "", t_ry |-> ""]
        ELSE IF is_type_variable(ry, c) \/ rx = ry
        THEN [died |-> FALSE, prev |-> q, t_rx |-> "", t_ry |-> ""]
        ELSE [died |-> TRUE, prev |-> q,
              t_rx |-> IF rx = INT(c) THEN "INT" ELSE "BOOL",
              t_ry |-> IF ry = INT(c) THEN "INT" ELSE "BOOL"]

\* one iteration of the range-for over constraints: the array after it, or
\* the two type names of the message given to die
solve(p, c, pair) ==
    LET x  == pair[1]
        y  == pair[2]
        fx == find(p, x)
        rx == fx.r
        fy == find(fx.prev, y)
        ry == fy.r
        q  == fy.prev
    IN  IF is_type_variable(rx, c) /\ is_type_variable(ry, c)
        THEN [died |-> FALSE, prev |-> join(q, rx, ry), t_rx |-> "", t_ry |-> ""]
        ELSE IF is_type_variable(rx, c)
        THEN [died |-> FALSE, prev |-> join(q, rx, ry), t_rx |-> "", t_ry |-> ""]
        ELSE IF is_type_variable(ry, c)
        THEN [died |-> FALSE, prev |-> join(q, ry, rx), t_rx |-> "", t_ry |-> ""]
        ELSE IF rx = ry
        THEN [died |-> FALSE, prev |-> join(q, rx, ry), t_rx |-> "", t_ry |-> ""]
        ELSE [died |-> TRUE, prev |-> q,
              t_rx |-> IF rx = INT(c) THEN "INT" ELSE "BOOL",
              t_ry |-> IF ry = INT(c) THEN "INT" ELSE "BOOL"]


-----------------------------------------------------------------------------
(* typecheck: the variable-type map *)

\* std::to_string(int)
to_string(n) == ToString(n)

add_var_OwnNumber(cur, p, c, m) ==
    IF cur.type = "Var"
    THEN LET f == find(p, cur.number)
             t == IF f.r = INT(c) THEN "INT"
                  ELSE IF f.r = BOOL(c) THEN "BOOL"
                  ELSE "GENERICS-" \o to_string(cur.number)
         IN  [prev |-> f.prev, ret |-> (cur.val :> t) @@ m]
    ELSE [prev |-> p, ret |-> m]

add_var_GenericOnly(cur, p, c, m) ==
    IF cur.type = "Var"
    THEN LET f == find(p, cur.number)
         IN  IF f.r = INT(c) \/ f.r = BOOL(c)
             THEN [prev |-> f.prev, ret |-> m]
             ELSE [prev |-> f.prev,
                   ret |-> (cur.val :> ("GENERICS-" \o to_string(f.r))) @@ m]
    ELSE [prev |-> p, ret |-> m]

\* the lambda add_var applied to one node: ret[c->val] = t.  The calls of
\* find after the first one find the path already compressed.
add_var(cur, p, c, m) ==
    IF cur.type = "Var"
    THEN LET f == find(p, cur.number)
             t == IF f.r = INT(c) THEN "INT"
                  ELSE IF f.r = BOOL(c) THEN "BOOL"
                  ELSE "GENERICS-" \o to_string(f.r)
         IN  [prev |-> f.prev, ret |-> (cur.val :> t) @@ m]
    ELSE [prev |-> p, ret |-> m]

\* dfs(root, add_var)
RECURSIVE dfs_add_var(_, _, _, _)
dfs_add_var(nodes, p, c, m) ==
    IF nodes = << >> THEN [prev |-> p, ret |-> m]
    ELSE LET s == add_var(Head(nodes), p, c, m)
         IN  dfs_add_var(Tail(nodes), s.prev, c, s.ret)

-----------------------------------------------------------------------------
(* main: printing the map *)

\* the letters in the order of their char values
Letters == "ABCDEFGHIJKLMNOPQRSTUVWXYZabcdefghijklmnopqrstuvwxyz"

\* the place of a letter in that order
CharOrd(ch) == CHOOSE k \in 1..Len(Letters) : SubSeq(Letters, k, k) = ch

\* operator< of std::string, the order in which std::map keeps its keys
RECURSIVE string_less(_, _)
string_less(a, b) ==
    IF b = "" THEN FALSE
    ELSE IF a = "" THEN TRUE
    ELSE LET ca == CharOrd(SubSeq(a, 1, 1))
             cb == CharOrd(SubSeq(b, 1, 1))
         IN  IF ca # cb THEN ca < cb
             ELSE string_less(SubSeq(a, 2, Len(a)), SubSeq(b, 2, Len(b)))

\* for (auto p : variable_type_map): the entries in key order
RECURSIVE map_entries(_)
map_entries(m) ==
    IF DOMAIN m = {} THEN << >>
    ELSE LET k == CHOOSE a \in DOMAIN m :
                      \A b \in DOMAIN m \ {a} : string_less(a, b)
         IN  << <<k, m[k]>> >>
             \o map_entries([a \in DOMAIN m \ {k} |-> m[a]])

\* std::cout << p.first << " :: " << p.second << std::endl
print_entry(p) == p[1] \o " :: " \o p[2]

\* the lines the for loop of main prints
RECURSIVE print_map(_)
print_map(es) ==
    IF es = << >> THEN << >>
    ELSE <<print_entry(Head(es))>> \o print_map(Tail(es))

-----------------------------------------------------------------------------
(* Tokens *)

\* the token that `new N(val0)` builds, and so on
new_N(val0) == [type |-> "N", val |-> val0]
new_I(val0) == [type |-> "I", val |-> val0]
new_B(val0) == [type |-> "B", val |-> val0]
new_K(val0) == [type |-> "K", val |-> val0]

\* Token::getLiteral of the four token types
getLiteral(t) ==
    IF t.type = "N" THEN t.val
    ELSE IF t.type = "I" THEN to_string(t.val)
    ELSE IF t.type = "B" THEN (IF t.val THEN "true" ELSE "false")
    ELSE t.val

-----------------------------------------------------------------------------
(* Characters *)

\* source[i], i counted from 0; source[size()] is the null character
CharAt(source, i) == SubSeq(source, i + 1, i + 1)

\* isa: std::isalpha in the "C" locale
isa(ch) == \E k \in 1..Len(Letters) : SubSeq(Letters, k, k) = ch

Digits == "0123456789"

\* isd: std::isdigit
isd(ch) == \E k \in 1..Len(Digits) : SubSeq(Digits, k, k) = ch

\* iss: std::isspace in the "C" locale (the vertical tab has no TLA+ escape)
iss(ch) == ch \in {" ", "\t", "\n", "\f", "\r"}

\* the value of a digit
DigitValue(ch) == (CHOOSE k \in 1..Len(Digits) : SubSeq(Digits, k, k) = ch) - 1

\* the limits of int
INT_MAX == 2147483647
INT_MIN == -2147483647 - 1

\* the digits of str from position i (from 0) on, added to the value acc of
\* the digits before them; thrown when the value leaves the range of int
RECURSIVE stoi_digits(_, _, _, _)
stoi_digits(str, i, acc, negative) ==
    IF i >= Len(str) THEN [thrown |-> FALSE, val |-> acc]
    ELSE LET d == DigitValue(CharAt(str, i)) IN
         IF negative
         THEN IF acc < (INT_MIN + d + 9) \div 10
              THEN [thrown |-> TRUE, val |-> 0]
              ELSE stoi_digits(str, i + 1, acc * 10 - d, negative)
         ELSE IF acc > (INT_MAX - d) \div 10
              THEN [thrown |-> TRUE, val |-> 0]
              ELSE stoi_digits(str, i + 1, acc * 10 + d, negative)

\* std::stoi of an optional '-' and digits: the value, or std::out_of_range
stoi(str) ==
    IF CharAt(str, 0) = "-"
    THEN stoi_digits(str, 1, 0, TRUE)
    ELSE stoi_digits(str, 0, 0, FALSE)

-----------------------------------------------------------------------------
(* tokenize *)

\* while (i < n && isa(source[i])): the index after the run of letters
RECURSIVE word_end(_, _)
word_end(source, i) ==
    IF i < Len(source) /\ isa(CharAt(source, i))
    THEN word_end(source, i + 1) ELSE i

\* while (i < n && isd(source[i])): the index after the run of digits (the
\* loop of the default branch has no i < n, and stops at source[n] all the same)
RECURSIVE num_end(_, _)
num_end(source, i) ==
    IF i < Len(source) /\ isd(CharAt(source, i))
    THEN num_end(source, i + 1) ELSE i

\* the token pushed for a word
word_token(word) ==
    IF word = "true" THEN new_B(TRUE)
    ELSE IF word = "false" THEN new_B(FALSE)
    ELSE IF word \in {"if", "then", "else", "let", "in"} THEN new_K(word)
    ELSE new_N(word)

\* the while loop of tokenize from index i on, ret holding r: the queue
\* returned ("ok"), the message given to die ("die"), or the exception of
\* std::stoi leaving the function ("throw")
RECURSIVE tokenize_from(_, _, _)
tokenize_from(source, i, r) ==
    LET n == Len(source)
        ch == CharAt(source, i)
    IN  IF i >= n THEN [status |-> "ok", ret |-> r, msg |-> ""]
        ELSE IF iss(ch) THEN tokenize_from(source, i + 1, r)
        ELSE IF isa(ch)
        THEN LET j == word_end(source, i)
             IN  tokenize_from(source, j,
                               Append(r, word_token(SubSeq(source, i + 1, j))))
        ELSE IF ch \in {"(", ")", "*", "/", "<", "="}
        THEN tokenize_from(source, i + 1, Append(r, new_K(ch)))
        ELSE IF ch = "-"
        THEN IF i + 1 < n /\ isd(CharAt(source, i + 1))
             THEN LET j == num_end(source, i + 1)
                      v == stoi("-" \o SubSeq(source, i + 2, j))
                  IN  IF v.thrown
                      THEN [status |-> "throw", ret |-> r, msg |-> ""]
                      ELSE tokenize_from(source, j, Append(r, new_I(v.val)))
             ELSE tokenize_from(source, i + 1, Append(r, new_K("-")))
        ELSE LET j == num_end(source, i)
             IN  IF j = i
                 THEN [status |-> "die", ret |-> r,
                       msg |-> "Token Error: unrecognized character '" \o ch
                               \o "' at position " \o to_string(i)]
                 ELSE LET v == stoi(SubSeq(source, i + 1, j))
                      IN  IF v.thrown
                          THEN [status |-> "throw", ret |-> r, msg |-> ""]
                          ELSE tokenize_from(source, j, Append(r, new_I(v.val)))

\* tokenize(source)
tokenize(source) == tokenize_from(source, 0, << >>)

-----------------------------------------------------------------------------
(* parse *)

\* the result of a parse function that ended in die(s)
SyntaxError(s) == [ok |-> FALSE, msg |-> s]

expect_IgnoresLiteral(q, lit, s) ==
    IF q = << >> THEN SyntaxError(s) ELSE [ok |-> TRUE, q |-> Tail(q)]

\* the check of a delimiter: q.empty(), then front, pop and the comparison
\* of the literal; the queue after it, or the message given to die
expect(q, lit, s) ==
    IF q = << >> THEN SyntaxError(s)
    ELSE IF getLiteral(Head(q)) # lit THEN SyntaxError(s)
    ELSE [ok |-> TRUE, q |-> Tail(q)]

\* the node of an operator with two operands
new_binary(op, n1, n2) ==
    IF op = "-" THEN new_Sub(n1, n2)
    ELSE IF op = "*" THEN new_Mul(n1, n2)
    ELSE IF op = "/" THEN new_Div(n1, n2)
    ELSE new_Lt(n1, n2)

RECURSIVE parseHead(_)
RECURSIVE parseTail(_)

\* the branches ( - .. ), ( * .. ), ( / .. ) and ( < .. ) of parseTail
parseTail_binary(op, q) ==
    LET s  == "Syntax Error: missing ) in (" \o op \o " <expr1> <expr2>)"
        r1 == parseHead(q)
    IN  IF ~r1.ok THEN r1
        ELSE LET r2 == parseHead(r1.q) IN
        IF ~r2.ok THEN r2
        ELSE LET e == expect(r2.q, ")", s) IN
        IF ~e.ok THEN e
        ELSE [ok |-> TRUE, node |-> new_binary(op, r1.node, r2.node), q |-> e.q]

\* the branch ( if <expr1> then <expr2> else <expr3> ) of parseTail
parseTail_if(q) ==
    LET form == " in (if <expr1> then <expr2> else <expr3>)"
        r1 == parseHead(q)
    IN  IF ~r1.ok THEN r1
        ELSE LET e1 == expect(r1.q, "then", "Syntax Error: missing 'then'" \o form) IN
        IF ~e1.ok THEN e1
        ELSE LET r2 == parseHead(e1.q) IN
        IF ~r2.ok THEN r2
        ELSE LET e2 == expect(r2.q, "else", "Syntax Error: missing 'else'" \o form) IN
        IF ~e2.ok THEN e2
        ELSE LET r3 == parseHead(e2.q) IN
        IF ~r3.ok THEN r3
        ELSE LET e3 == expect(r3.q, ")", "Syntax Error: missing )" \o form) IN
        IF ~e3.ok THEN e3
        ELSE [ok |-> TRUE, node |-> new_If(r1.node, r2.node, r3.node), q |-> e3.q]

\* the branch ( let <variable> = <expr1> in <expr2> ) of parseTail
parseTail_let(q) ==
    LET form == " in (let <variable> = <expr1> in <expr2>)"
        r1 == parseHead(q)
    IN  IF ~r1.ok THEN r1
        ELSE IF r1.node.type # "Var"
        THEN SyntaxError("Syntax Error: The token following 'let' must be a variable.")
        ELSE LET e1 == expect(r1.q, "=", "Syntax Error: missing =" \o form) IN
        IF ~e1.ok THEN e1
        ELSE LET r2 == parseHead(e1.q) IN
        IF ~r2.ok THEN r2
        ELSE LET e2 == expect(r2.q, "in", "Syntax Error: missing 'in'" \o form) IN
        IF ~e2.ok THEN e2
        ELSE LET r3 == parseHead(e2.q) IN
        IF ~r3.ok THEN r3
        ELSE LET e3 == expect(r3.q, ")", "Syntax Error: missing )" \o form) IN
        IF ~e3.ok THEN e3
        ELSE [ok |-> TRUE, node |-> new_Let(r1.node, r2.node, r3.node), q |-> e3.q]

\* parseTail: the node and the queue left, or the message given to die
parseTail(q) ==
    IF q = << >>
    THEN SyntaxError("Syntax Error: Expressions and subexpressions cannot be (.")
    ELSE LET lit == getLiteral(Head(q)) IN
         IF lit \in {"-", "*", "/", "<"} THEN parseTail_binary(lit, Tail(q))
         ELSE IF lit = "if" THEN parseTail_if(Tail(q))
         ELSE IF lit = "let" THEN parseTail_let(Tail(q))
         ELSE SyntaxError("Syntax Error: Expressions and subexpressions cannot start with ( and "
                          \o lit)

\* parseHead: the node and the queue left, or the message given to die
parseHead(q) ==
    IF q = << >>
    THEN SyntaxError("Syntax Error: Expressions and subexpressions cannot be empty.")
    ELSE LET cur == Head(q) IN
         IF cur.type = "N"
         THEN [ok |-> TRUE, node |-> new_Var(getLiteral(cur)), q |-> Tail(q)]
         ELSE IF cur.type = "I"
         THEN [ok |-> TRUE, node |-> new_Int(stoi(getLiteral(cur)).val), q |-> Tail(q)]
         ELSE IF cur.type = "B"
         THEN [ok |-> TRUE, node |-> new_Bool(getLiteral(cur) = "true"), q |-> Tail(q)]
         ELSE IF getLiteral(cur) = "("
         THEN parseTail(Tail(q))
         ELSE SyntaxError("Syntax Error: Expressions and subexpressions cannot start with token "
                          \o getLiteral(cur))

parse_WholeQueue(toks) ==
    LET r == parseHead(toks)
    IN  IF r.ok /\ r.q # << >>
        THEN SyntaxError("Syntax Error: tokens after the expression")
        ELSE r

\* parse: parseHead on a copy of the queue
parse(toks) == parseHead(toks)

-----------------------------------------------------------------------------
(* die *)

\* die(s): s goes to std::cerr and the process exits
die(s) ==
    /\ err' = Append(err, s)
    /\ pc' = "exited"

-----------------------------------------------------------------------------
(* Actions of typecheck and of the end of main's loop body *)

\* dfs(root, assign_numbers)
AssignNumbers ==
    /\ pc = "typecheck"
    /\ LET r == dfs_assign_numbers(root, 0, << >>)
       IN  /\ root' = r.node
           /\ counter' = r.counter
           /\ variable_number_map' = r.map
    /\ pc' = "generate"
    /\ UNCHANGED <<cin, line, tokens, constraints, ci, prev, ret, out, err>>

\* dfs(root, generate_constraints); UnionFind uf(counter + 2)
GenerateConstraints ==
    /\ pc = "generate"
    /\ constraints' = dfs_generate_constraints(dfs(root), counter)
    /\ prev' = UnionFind(counter + 2)
    /\ ci' = 1
    /\ pc' = "solve"
    /\ UNCHANGED <<cin, line, tokens, root, counter, variable_number_map, ret,
                   out, err>>

\* one iteration of for (auto p : constraints)
SolveConstraint ==
    /\ pc = "solve"
    /\ ci <= Len(constraints)
    /\ LET s == solve(prev, counter, constraints[ci])
       IN  IF s.died
           THEN /\ die("Type Error: cannot unify " \o s.t_rx \o " and " \o s.t_ry)
                /\ prev' = s.prev
                /\ UNCHANGED ci
           ELSE /\ prev' = s.prev
                /\ ci' = ci + 1
                /\ UNCHANGED <<pc, err>>
    /\ UNCHANGED <<cin, line, tokens, root, counter, variable_number_map,
                   constraints, ret, out>>

\* dfs(root, add_var); return ret
AddVar ==
    /\ pc = "solve"
    /\ ci > Len(constraints)
    /\ LET s == dfs_add_var(dfs(root), prev, counter, << >>)
       IN  /\ prev' = s.prev
           /\ ret' = s.ret
    /\ pc' = "returned"
    /\ UNCHANGED <<cin, line, tokens, root, counter, variable_number_map,
                   constraints, ci, out, err>>

\* the for loop of main over variable_type_map; delete ast_root
PrintMap ==
    /\ pc = "returned"
    /\ out' = out \o print_map(map_entries(ret))
    /\ pc' = "getline"
    /\ UNCHANGED <<cin, line, tokens, root, counter, variable_number_map,
                   constraints, ci, prev, ret, err>>

-----------------------------------------------------------------------------
(* The union-find alone, under any sequence of calls *)

\* std::cin with nothing to read
NoInput == [buf |-> << >>, eol |-> TRUE, good |-> TRUE]

UFInit ==
    /\ pc = "uf"
    /\ prev = UnionFind(UFSize)
    /\ cin = NoInput
    /\ line = ""
    /\ tokens = << >>
    /\ root = new_Int(0)
    /\ counter = 0
    /\ variable_number_map = << >>
    /\ constraints = << >>
    /\ ci = 1
    /\ ret = << >>
    /\ out = << >>
    /\ err = << >>

UFFind(x) ==
    /\ pc = "uf"
    /\ prev' = find(prev, x).prev
    /\ UNCHANGED <<pc, cin, line, tokens, root, counter, variable_number_map,
                   constraints, ci, ret, out, err>>

UFJoin(x, y) ==
    /\ pc = "uf"
    /\ prev' = join(prev, x, y)
    /\ UNCHANGED <<pc, cin, line, tokens, root, counter, variable_number_map,
                   constraints, ci, ret, out, err>>

UFNext ==
    \/ \E x \in DOMAIN prev : UFFind(x)
    \/ \E x \in DOMAIN prev : \E y \in DOMAIN prev : UFJoin(x, y)

SpecUF == UFInit /\ [][UFNext]_vars

-----------------------------------------------------------------------------
(* The solving loop on any constraint list *)

\* the sequences over S of length at most n
RECURSIVE SeqsUpTo(_, _)
SeqsUpTo(S, n) ==
    IF n = 0 THEN {<< >>}
    ELSE LET T == SeqsUpTo(S, n - 1)
         IN  T \cup {Append(t, e) : t \in {u \in T : Len(u) = n - 1}, e \in S}

\* the pairs that link 0 with 1, 0 with INT and 1 with BOOL, either way round
ChainPairs(k) ==
    {<<0, 1>>, <<1, 0>>, <<0, INT(k)>>, <<INT(k), 0>>, <<1, BOOL(k)>>,
     <<BOOL(k), 1>>}

\* the lists of three such pairs, when there are two type variables
ChainLists(k) ==
    IF k < 2 THEN {}
    ELSE {<<a, b, c>> : a \in ChainPairs(k), b \in ChainPairs(k),
                        c \in ChainPairs(k)}

\* typecheck after its second pass, with counter = k and a constraint list
\* over 0..k+1: any list of up to MaxCons pairs, or a list of three chain
\* pairs; the expression is the variable x, numbered 0
SolveInit ==
    /\ pc = "solve"
    /\ counter \in 1..MaxK
    /\ constraints \in
           SeqsUpTo((0..(counter + 1)) \X (0..(counter + 1)), MaxCons)
           \cup ChainLists(counter)
    /\ prev = UnionFind(counter + 2)
    /\ ci = 1
    /\ root = [new_Var("x") EXCEPT !.number = 0]
    /\ variable_number_map = ("x" :> 0)
    /\ cin = NoInput
    /\ line = ""
    /\ tokens = << >>
    /\ ret = << >>
    /\ out = << >>
    /\ err = << >>

SolveNext == SolveConstraint \/ AddVar \/ PrintMap

SpecSolve == SolveInit /\ [][SolveNext]_vars

-----------------------------------------------------------------------------
(* typecheck on any expression *)

VarNames == {"x", "y"}

Leaves == {new_Var(v) : v \in VarNames} \cup {new_Int(1), new_Bool(TRUE)}

\* the expressions of exactly n nodes
RECURSIVE TreesOfSize(_)
TreesOfSize(n) ==
    IF n = 1 THEN Leaves
    ELSE LET two == UNION {
                 LET A == TreesOfSize(k)
                     B == TreesOfSize(n - 1 - k)
                 IN  {new_Sub(a, b) : a \in A, b \in B}
                     \cup {new_Mul(a, b) : a \in A, b \in B}
                     \cup {new_Div(a, b) : a \in A, b \in B}
                     \cup {new_Lt(a, b) : a \in A, b \in B}
                 : k \in 1..(n - 2)}
             three == UNION {
                 LET A == TreesOfSize(sp[1])
                     B == TreesOfSize(sp[2])
                     C == TreesOfSize(n - 1 - sp[1] - sp[2])
                 IN  {new_If(a, b, c) : a \in A, b \in B, c \in C}
                     \cup {new_Let(a, b, c) :
                              a \in {t \in A : t.type = "Var"}, b \in B, c \in C}
                 : sp \in {q \in (1..(n - 3)) \X (1..(n - 3)) : q[1] + q[2] <= n - 2}}
         IN  two \cup three

\* texts of larger expressions: a let with an operator as body, names used
\* in and out of a let, one name bound by two lets, a let inside a let
SampleTexts ==
    {"( let x = 1 in ( < x 2 ) )",
     "( let x = y in ( - x y ) )",
     "( if ( < x 1 ) then x else y )",
     "( let x = 1 in ( let x = true in x ) )",
     "( let x = ( let y = 1 in y ) in x )",
     "( let x = ( let y = z in y ) in x )",
     "( if x then ( * y 2 ) else ( / y x ) )",
     "( - ( * x y ) ( / z 1 ) )"}

\* the expressions given to typecheck: every expression of up to MaxNodes
\* nodes, and what parse returns for the sample texts
Exprs ==
    UNION {TreesOfSize(n) : n \in 1..MaxNodes}
    \cup {parse(tokenize(t).ret).node : t \in SampleTexts}

TCInit ==
    /\ pc = "typecheck"
    /\ root \in Exprs
    /\ counter = 0
    /\ variable_number_map = << >>
    /\ constraints = << >>
    /\ ci = 1
    /\ prev = << >>
    /\ cin = NoInput
    /\ line = ""
    /\ tokens = << >>
    /\ ret = << >>
    /\ out = << >>
    /\ err = << >>

TCNext ==
    \/ AssignNumbers
    \/ GenerateConstraints
    \/ SolveConstraint
    \/ AddVar
    \/ PrintMap

SpecTC == TCInit /\ [][TCNext]_vars

-----------------------------------------------------------------------------
(* main *)

\* std::cout << "...> " << std::flush; getline(std::cin, line).  getline
\* leaves line alone when the stream is no longer good, clears it and fails
\* when nothing is left, and sets eofbit when the last line has no newline.
GetLine ==
    /\ pc = "getline"
    /\ Len(out) < MaxOut
    /\ out' = Append(out, "...> ")
    /\ IF ~cin.good
       THEN UNCHANGED <<cin, line>>
       ELSE IF cin.buf = << >>
       THEN /\ line' = ""
            /\ cin' = [cin EXCEPT !.good = FALSE]
       ELSE /\ line' = Head(cin.buf)
            /\ cin' = [cin EXCEPT !.buf = Tail(cin.buf),
                                  !.good = (Tail(cin.buf) # << >> \/ cin.eol)]
    /\ pc' = "tokenize"
    /\ UNCHANGED <<tokens, root, counter, variable_number_map, constraints,
                   ci, prev, ret, err>>

\* auto tokens = tokenize(line)
Tokenize ==
    /\ pc = "tokenize"
    /\ LET r == tokenize(line)
       IN  IF r.status = "ok"
           THEN /\ tokens' = r.ret
                /\ pc' = "parse"
                /\ UNCHANGED err
           ELSE IF r.status = "die"
           THEN /\ die(r.msg)
                /\ UNCHANGED tokens
           ELSE \* std::out_of_range is caught nowhere: std::terminate
                /\ pc' = "aborted"
                /\ UNCHANGED <<tokens, err>>
    /\ UNCHANGED <<cin, line, root, counter, variable_number_map, constraints,
                   ci, prev, ret, out>>

\* auto ast_root = parse(tokens); the loop that releases the tokens
Parse ==
    /\ pc = "parse"
    /\ LET r == parse(tokens)
       IN  IF r.ok
           THEN /\ root' = r.node
                /\ tokens' = << >>
                /\ pc' = "typecheck"
                /\ UNCHANGED err
           ELSE /\ die(r.msg)
                /\ UNCHANGED <<root, tokens>>
    /\ UNCHANGED <<cin, line, counter, variable_number_map, constraints, ci,
                   prev, ret, out>>

\* the state of main before its loop, std::cin holding c
MainStart(c) ==
    /\ pc = "getline"
    /\ cin = c
    /\ line = ""
    /\ tokens = << >>
    /\ root = new_Int(0)
    /\ counter = 0
    /\ variable_number_map = << >>
    /\ constraints = << >>
    /\ ci = 1
    /\ prev = << >>
    /\ ret = << >>
    /\ out = << >>
    /\ err = << >>

\* the lines given to main: well-formed ones, and one for each kind of error
InputLines ==
    {"x", "( - x 1 )", "( let x = 1 in ( < x 2 ) )", "",
     "#", "( - x", "( if x then 1 else true )"}

MainInit ==
    \E buf \in SeqsUpTo(InputLines, MaxLines) : \E eol \in BOOLEAN :
        /\ ~eol => (buf # << >> /\ buf[Len(buf)] # "")
        /\ MainStart([buf |-> buf, eol |-> eol, good |-> TRUE])

MainNext ==
    \/ GetLine
    \/ Tokenize
    \/ Parse
    \/ AssignNumbers
    \/ GenerateConstraints
    \/ SolveConstraint
    \/ AddVar
    \/ PrintMap

SpecMain == MainInit /\ [][MainNext]_vars

-----------------------------------------------------------------------------
(* tokenize on any text *)

\* the string made of the characters of a sequence
RECURSIVE Concat(_)
Concat(chars) ==
    IF chars = << >> THEN "" ELSE Head(chars) \o Concat(Tail(chars))

\* k times the character ch
RECURSIVE Repeat(_, _)
Repeat(ch, k) == IF k = 0 THEN "" ELSE ch \o Repeat(ch, k - 1)

LexAlphabet == {" ", "-", "0", "1", "i", "n", "(", "?"}

\* every text of up to MaxLen characters of the alphabet
ShortTexts == {Concat(chars) : chars \in SeqsUpTo(LexAlphabet, MaxLen)}

\* numbers of up to MaxDigits digits, with and without sign, and the numbers
\* around the limits of int
LongNumbers ==
    {sign \o Repeat("9", k) : sign \in {"", "-"}, k \in 1..MaxDigits}
    \cup {"2147483647", "2147483648", "-2147483648", "-2147483649"}

LexInit ==
    \E text \in ShortTexts \cup LongNumbers :
        /\ pc = "tokenize"
        /\ line = text
        /\ cin = NoInput
        /\ tokens = << >>
        /\ root = new_Int(0)
        /\ counter = 0
        /\ variable_number_map = << >>
        /\ constraints = << >>
        /\ ci = 1
        /\ prev = << >>
        /\ ret = << >>
        /\ out = << >>
        /\ err = << >>

LexNext == Tokenize

SpecLex == LexInit /\ [][LexNext]_vars

-----------------------------------------------------------------------------
(* parse on any token sequence *)

\* the keywords tokenize pushes as K tokens
Keywords ==
    {"(", ")", "-", "*", "/", "<", "=", "if", "then", "else", "let", "in"}

\* a token of each type N, I and B, and every K token
TokenAlphabet ==
    {new_N("x"), new_I(1), new_B(TRUE)} \cup {new_K(k) : k \in Keywords}

\* the tokens of an expression, by the grammar above parseHead
RECURSIVE TokensOf(_)
TokensOf(n) ==
    IF n.type = "Var" THEN <<new_N(n.val)>>
    ELSE IF n.type = "Int" THEN <<new_I(n.val)>>
    ELSE IF n.type = "Bool" THEN <<new_B(n.val)>>
    ELSE IF n.type = "Sub"
    THEN <<new_K("("), new_K("-")>> \o TokensOf(n.n1) \o TokensOf(n.n2)
         \o <<new_K(")")>>
    ELSE IF n.type = "Mul"
    THEN <<new_K("("), new_K("*")>> \o TokensOf(n.n1) \o TokensOf(n.n2)
         \o <<new_K(")")>>
    ELSE IF n.type = "Div"
    THEN <<new_K("("), new_K("/")>> \o TokensOf(n.n1) \o TokensOf(n.n2)
         \o <<new_K(")")>>
    ELSE IF n.type = "Lt"
    THEN <<new_K("("), new_K("<")>> \o TokensOf(n.n1) \o TokensOf(n.n2)
         \o <<new_K(")")>>
    ELSE IF n.type = "If"
    THEN <<new_K("("), new_K("if")>> \o TokensOf(n.n1) \o <<new_K("then")>>
         \o TokensOf(n.n2) \o <<new_K("else")>> \o TokensOf(n.n3)
         \o <<new_K(")")>>
    ELSE <<new_K("("), new_K("let")>> \o TokensOf(n.n1) \o <<new_K("=")>>
         \o TokensOf(n.n2) \o <<new_K("in")>> \o TokensOf(n.n3)
         \o <<new_K(")")>>

\* a line that tokenize turns into the tokens toks
RECURSIVE TextOf(_)
TextOf(toks) ==
    IF toks = << >> THEN ""
    ELSE IF Len(toks) = 1 THEN getLiteral(Head(toks))
    ELSE getLiteral(Head(toks)) \o " " \o TextOf(Tail(toks))

\* the tokens of complete expressions: of every expression of up to
\* MaxParseNodes nodes, of a let that binds an expression, and of the
\* sample texts
CompleteExprs ==
    {TokensOf(t) : t \in UNION {TreesOfSize(n) : n \in 1..MaxParseNodes}}
    \cup {TokensOf(new_Let(a, new_Int(1), new_Var("x"))) :
              a \in TreesOfSize(1) \cup TreesOfSize(3)}
    \cup {tokenize(t).ret : t \in SampleTexts}

\* w with one token replaced by any token, with one token left out, cut
\* at any point, and followed by up to MaxTrail tokens
VariantsOf(w) ==
    {[w EXCEPT ![i] = a] : i \in 1..Len(w), a \in TokenAlphabet}
    \cup {SubSeq(w, 1, i - 1) \o SubSeq(w, i + 1, Len(w)) : i \in 1..Len(w)}
    \cup {SubSeq(w, 1, i) : i \in 0..Len(w)}
    \cup {w \o u : u \in SeqsUpTo(TokenAlphabet, MaxTrail)}

\* main after tokenize has returned, for a line with any tokens up to
\* MaxToks of them, or with a variant of the tokens of a complete expression
ParseInit ==
    /\ pc = "parse"
    /\ \/ tokens \in SeqsUpTo(TokenAlphabet, MaxToks)
       \/ \E w \in CompleteExprs : tokens \in VariantsOf(w)
    /\ line = TextOf(tokens)
    /\ cin = NoInput
    /\ root = new_Int(0)
    /\ counter = 0
    /\ variable_number_map = << >>
    /\ constraints = << >>
    /\ ci = 1
    /\ prev = << >>
    /\ ret = << >>
    /\ out = <<"...> ">>
    /\ err = << >>

\* parse, and the first pass of typecheck on what it returns
ParseNext == Parse \/ AssignNumbers

SpecParse == ParseInit /\ [][ParseNext]_vars

-----------------------------------------------------------------------------
(* Equivalence of ids under a list of constraints *)

\* the ids of a union-find array
Ids == DOMAIN prev

\* the ids linked to an id of S by pairs of E, in any number of steps
RECURSIVE Closure(_, _)
Closure(S, E) ==
    LET N == S \cup {e[2] : e \in {d \in E : d[1] \in S}}
               \cup {e[1] : e \in {d \in E : d[2] \in S}}
    IN  IF N = S THEN S ELSE Closure(N, E)

\* the class of id a in the reflexive-symmetric-transitive closure of cons
ClassOf(a, cons) == Closure({a}, {cons[k] : k \in 1..Len(cons)})

\* the partition of the ids that a parent array stands for
Partition(p) ==
    {{w \in DOMAIN p : find_root(p, w) = find_root(p, v)} : v \in DOMAIN p}

\* the constraints the loop has processed without a type error
Processed == SubSeq(constraints, 1, ci - 1)

\* some type variable is equated with INT and with BOOL
GroundConflict ==
    \E v \in 0..(counter - 1) :
        {INT(counter), BOOL(counter)} \subseteq ClassOf(v, constraints)

TypeErrorMessages ==
    {"Type Error: cannot unify INT and BOOL",
     "Type Error: cannot unify BOOL and INT"}

-----------------------------------------------------------------------------
(* C1 *)

\* C1: when the constraint list equates a type variable with INT and with
\* BOOL, directly or through other type variables, the solving loop never
\* runs to its end: it stops in die with a message that names INT and BOOL,
\* and no map is returned or printed.
C1_GroundConflictIsTypeError ==
    GroundConflict =>
        /\ pc \in {"solve", "exited"}
        /\ ci <= Len(constraints)
        /\ ret = << >>
        /\ out = << >>
        /\ pc = "solve" => err = << >>
        /\ pc = "exited" => Len(err) = 1 /\ err[1] \in TypeErrorMessages

\* the conflict goes through a second type variable, the ground types are on
\* either side, and the loop has died
C1_Witness ==
    /\ pc = "exited"
    /\ counter = 2
    /\ constraints = << <<BOOL(2), 1>>, <<1, 0>>, <<0, INT(2)>> >>
    /\ err = <<"Type Error: cannot unify BOOL and INT">>

-----------------------------------------------------------------------------
(* C2 *)

\* C2: during solving INT and BOOL are their own parents, and every id that
\* the processed constraints put in the class of a ground type has that
\* ground type as the result of find.
C2_GroundTypesAreRoots ==
    /\ prev[INT(counter)] = INT(counter)
    /\ prev[BOOL(counter)] = BOOL(counter)
    /\ \A v \in Ids : \A g \in {INT(counter), BOOL(counter)} :
           g \in ClassOf(v, Processed) => find(prev, v).r = g

\* a ground type on the left of a pair has been joined with a type variable
\* that already was the root of another one
C2_Witness ==
    /\ pc = "solve"
    /\ ci = 3
    /\ counter = 2
    /\ constraints[1] = <<0, 1>>
    /\ constraints[2] = <<INT(2), 0>>
    /\ find(prev, 0).r = INT(2)

-----------------------------------------------------------------------------
(* C3 *)

\* C3: join(x, y) leaves x and y with one representative, which is the
\* representative y had before the call; every id of the two classes gets it
\* and the ids of the other classes keep theirs.
C3_JoinContract ==
    [][\A x \in Ids : \A y \in Ids :
          UFJoin(x, y) =>
              LET rx == find_root(prev, x)
                  ry == find_root(prev, y)
              IN  /\ find_root(prev', x) = find_root(prev', y)
                  /\ find_root(prev', x) = ry
                  /\ \A z \in Ids :
                         find_root(prev', z) =
                             IF find_root(prev, z) \in {rx, ry}
                             THEN ry ELSE find_root(prev, z)]_vars

\* two joins have built a chain: z under x, then x under y
C3_Witness ==
    /\ pc = "uf"
    /\ \E x \in Ids : \E y \in Ids \ {x} : \E z \in Ids \ {x, y} :
           prev[z] = x /\ prev[x] = y /\ prev[y] = y

-----------------------------------------------------------------------------
(* C4 *)

\* the iteration of the loop with the other survivor when both roots are
\* type variables
solve_survivor(p, c, pair, first_survives) ==
    LET fx == find(p, pair[1])
        fy == find(fx.prev, pair[2])
    IN  IF /\ first_survives
           /\ is_type_variable(fx.r, c)
           /\ is_type_variable(fy.r, c)
        THEN [died |-> FALSE, prev |-> join(fy.prev, fy.r, fx.r)]
        ELSE LET s == solve(p, c, pair)
             IN  [died |-> s.died, prev |-> s.prev]

\* the whole loop over a constraint list, with that choice of survivor
RECURSIVE solve_all(_, _, _, _)
solve_all(p, c, cons, first_survives) ==
    IF cons = << >> THEN [died |-> FALSE, prev |-> p]
    ELSE LET s == solve_survivor(p, c, Head(cons), first_survives)
         IN  IF s.died THEN s
             ELSE solve_all(s.prev, c, Tail(cons), first_survives)

\* C4: when the loop ends without a type error, every permutation of the
\* constraint list, with either survivor for two type-variable roots, is
\* solved without a type error too and gives the same partition.
C4_PartitionOrderIndependent ==
    (pc = "solve" /\ ci > Len(constraints)) =>
        \A perm \in Permutations(1..Len(constraints)) :
            \A first_survives \in BOOLEAN :
                LET cons == [k \in 1..Len(constraints) |-> constraints[perm[k]]]
                    alt  == solve_all(UnionFind(counter + 2), counter, cons,
                                      first_survives)
                IN  /\ ~alt.died
                    /\ Partition(alt.prev) = Partition(prev)

\* three constraints solved; two type-variable roots were joined and a ground
\* type came on the left
C4_Witness ==
    /\ pc = "solve"
    /\ ci = 4
    /\ counter = 2
    /\ constraints = << <<0, 1>>, <<INT(2), 0>>, <<1, 0>> >>

-----------------------------------------------------------------------------
(* The nodes of the expression typecheck works on *)

\* the nodes of root in pre-order
Nodes == dfs(root)

IsVar(k) == Nodes[k].type = "Var"

\* the variable names of the expression
Names == {Nodes[k].val : k \in {j \in 1..Len(Nodes) : IsVar(j)}}

\* node k is not a Var, or is the first Var of its name in pre-order
TakesFreshId(k) ==
    \/ ~IsVar(k)
    \/ \A j \in 1..(k - 1) : ~(IsVar(j) /\ Nodes[j].val = Nodes[k].val)

\* the value of the counter when the pass reaches node k
CounterAt(k) == Cardinality({j \in 1..(k - 1) : TakesFreshId(j)})

\* the first node in pre-order that is a Var of this name
FirstVar(name) ==
    CHOOSE k \in 1..Len(Nodes) :
        /\ IsVar(k) /\ Nodes[k].val = name
        /\ \A j \in 1..(k - 1) : ~(IsVar(j) /\ Nodes[j].val = name)

-----------------------------------------------------------------------------
(* C5 *)

\* C5: after the numbering pass every node has an id in 0..K-1, K being the
\* number of non-Var nodes plus the number of distinct names; a non-Var node
\* shares its id with no node; the Var nodes of one name share one id, the
\* counter value at the first of them in pre-order, whatever let encloses
\* them; Var nodes of different names have different ids.
C5_Numbering ==
    pc \in {"generate", "solve", "returned", "getline", "exited"} =>
        /\ counter = Cardinality({k \in 1..Len(Nodes) : ~IsVar(k)})
                     + Cardinality(Names)
        /\ \A k \in 1..Len(Nodes) : Nodes[k].number \in 0..(counter - 1)
        /\ \A k \in 1..Len(Nodes) : \A j \in 1..Len(Nodes) :
               (~IsVar(k) /\ j # k) => Nodes[k].number # Nodes[j].number
        /\ \A k \in 1..Len(Nodes) :
               IsVar(k) => Nodes[k].number = CounterAt(FirstVar(Nodes[k].val))
        /\ \A k \in 1..Len(Nodes) : \A j \in 1..Len(Nodes) :
               (IsVar(k) /\ IsVar(j)) =>
                   ((Nodes[k].val = Nodes[j].val)
                       <=> (Nodes[k].number = Nodes[j].number))

\* (let x = y in (- x y)) has been numbered: both x are 1, both y are 2
C5_Witness ==
    /\ pc = "generate"
    /\ root.type = "Let" /\ root.number = 0
    /\ root.n1.val = "x" /\ root.n1.number = 1
    /\ root.n2.type = "Var" /\ root.n2.val = "y" /\ root.n2.number = 2
    /\ root.n3.type = "Sub" /\ root.n3.number = 3
    /\ root.n3.n1.type = "Var" /\ root.n3.n1.val = "x" /\ root.n3.n1.number = 1
    /\ root.n3.n2.type = "Var" /\ root.n3.n2.val = "y" /\ root.n3.n2.number = 2
    /\ counter = 4

-----------------------------------------------------------------------------
(* C6 *)

\* the constraints the table of typing rules gives for one node, K being the
\* number of type variables
RuleOf(self, K) ==
    CASE self.type = "Var" -> << >>
      [] self.type = "Int" -> << <<self.number, K>> >>
      [] self.type = "Bool" -> << <<self.number, K + 1>> >>
      [] self.type \in {"Sub", "Mul", "Div"} ->
            << <<self.number, K>>, <<self.n1.number, K>>, <<self.n2.number, K>> >>
      [] self.type = "Lt" ->
            << <<self.number, K + 1>>, <<self.n1.number, K>>,
               <<self.n2.number, K>> >>
      [] self.type = "If" ->
            << <<self.number, self.n2.number>>, <<self.n1.number, K + 1>>,
               <<self.n2.number, self.n3.number>> >>
      [] self.type = "Let" ->
            << <<self.number, self.n3.number>>,
               <<self.n1.number, self.n2.number>> >>

\* the rules of the first k nodes in pre-order, one after the other
RECURSIVE RulesUpTo(_)
RulesUpTo(k) ==
    IF k = 0 THEN << >> ELSE RulesUpTo(k - 1) \o RuleOf(Nodes[k], counter)

\* C6: the constraint list is, in pre-order of the nodes, exactly the pairs
\* of the table of typing rules, with INT = K and BOOL = K + 1.
C6_Constraints ==
    pc \in {"solve", "returned", "getline", "exited"} =>
        constraints = RulesUpTo(Len(Nodes))

\* the constraints of (let x = 1 in (< x 2)) have been generated
C6_Witness ==
    /\ pc = "solve"
    /\ ci = 1
    /\ root.type = "Let"
    /\ root.n3.type = "Lt"
    /\ constraints = << <<0, 3>>, <<1, 2>>, <<2, 5>>, <<3, 6>>, <<1, 5>>,
                        <<4, 5>>, <<4, 5>> >>

-----------------------------------------------------------------------------
(* C7 *)

\* the label of a representative, with a given prefix for the generic one
LabelOf(r, generic) ==
    IF r = counter THEN "INT"
    ELSE IF r = counter + 1 THEN "BOOL"
    ELSE generic \o ToString(r)

\* the map has one entry for each name of the expression, labelled by the
\* representative of the name's id, and main prints one line for each entry
ReportIs(generic) ==
    /\ pc \in {"returned", "getline"} =>
           /\ DOMAIN ret = Names
           /\ \A name \in Names :
                  ret[name] =
                      LabelOf(find(prev, variable_number_map[name]).r, generic)
    /\ pc = "getline" =>
           /\ Len(out) = Cardinality(Names)
           /\ {out[k] : k \in 1..Len(out)} =
                  {name \o " :: " \o ret[name] : name \in Names}

\* C7 as stated: the generic label is GENERIC-<id>.
C7_AsStated == ReportIs("GENERIC-")

\* C7, amended: the generic label is GENERICS-<id>; the rest of the claim
\* is as stated.
C7_Report == ReportIs("GENERICS-")

\* (let x = y in x) has been reported: x has id 1 and representative 2
C7_Witness ==
    /\ pc = "getline"
    /\ root.type = "Let"
    /\ variable_number_map = ("x" :> 1) @@ ("y" :> 2)
    /\ out = <<"x :: GENERICS-2", "y :: GENERICS-2">>

-----------------------------------------------------------------------------
(* C8 *)

\* some Var of the expression is neither a name bound by an enclosing let
\* nor the binding occurrence of a let
RECURSIVE HasFreeVariable(_, _)
HasFreeVariable(n, bound) ==
    IF n.type = "Var" THEN n.val \notin bound
    ELSE IF n.type = "Let"
    THEN \/ HasFreeVariable(n.n2, bound \cup {n.n1.val})
         \/ HasFreeVariable(n.n3, bound \cup {n.n1.val})
    ELSE IF n.type = "If"
    THEN \/ HasFreeVariable(n.n1, bound)
         \/ HasFreeVariable(n.n2, bound)
         \/ HasFreeVariable(n.n3, bound)
    ELSE IF n.type \in TwoChildren
    THEN HasFreeVariable(n.n1, bound) \/ HasFreeVariable(n.n2, bound)
    ELSE FALSE

\* the names the let nodes of the expression bind
LetNames == {Nodes[k].n1.val : k \in {j \in 1..Len(Nodes) : Nodes[j].type = "Let"}}

\* C8 as stated: an expression without free variables gives an empty map and
\* no printed line, unless typecheck fails.
C8_AsStated ==
    (pc \in {"returned", "getline"} /\ ~HasFreeVariable(root, {})) =>
        /\ DOMAIN ret = {}
        /\ out = << >>

\* C8, amended: for an expression without free variables typecheck fails
\* with a type error or returns a map with exactly one entry for each
\* let-bound name, and one line is printed for each; the map is empty only
\* when the expression has no let.
C8_BoundNamesReported ==
    (pc \in {"returned", "getline"} /\ ~HasFreeVariable(root, {})) =>
        /\ DOMAIN ret = LetNames
        /\ pc = "getline" => Len(out) = Cardinality(LetNames)

\* (let x = 1 in (< x 2)) has been typechecked and printed
C8_Witness ==
    /\ pc = "getline"
    /\ ~HasFreeVariable(root, {})
    /\ root.type = "Let"
    /\ root.n3.type = "Lt"
    /\ out = <<"x :: INT">>

-----------------------------------------------------------------------------
(* C9 *)

\* C9 as stated: an error on one line does not stop the loop: after a
\* diagnostic the program has not exited while lines are still to be read,
\* and nothing but the prompt was written for the failing line.
C9_AsStated ==
    /\ (err # << >> /\ cin.buf # << >>) => pc # "exited"
    /\ pc = "exited" => out[Len(out)] = "...> "

-----------------------------------------------------------------------------
(* C10 *)

\* the text holds only '-', digits and blanks
OnlySignsDigitsBlanks(text) ==
    \A k \in 0..(Len(text) - 1) :
        CharAt(text, k) = "-" \/ isd(CharAt(text, k)) \/ CharAt(text, k) = " "

\* the index after the maximal run of digits that starts at index i
DigitRunEnd(text, i) ==
    CHOOSE j \in i..Len(text) :
        /\ \A k \in i..(j - 1) : isd(CharAt(text, k))
        /\ j = Len(text) \/ ~isd(CharAt(text, j))

\* what the claim says tokenize makes of such a text from index i on: for
\* each '-' followed by a digit and for each unsigned run of digits a literal
\* (its sign and its digits), for each other '-' the keyword
RECURSIVE SignedRuns(_, _)
SignedRuns(text, i) ==
    IF i >= Len(text) THEN << >>
    ELSE IF CharAt(text, i) = " " THEN SignedRuns(text, i + 1)
    ELSE IF CharAt(text, i) = "-"
    THEN IF i + 1 < Len(text) /\ isd(CharAt(text, i + 1))
         THEN LET j == DigitRunEnd(text, i + 1)
              IN  <<[literal |-> TRUE, negative |-> TRUE,
                     digits |-> SubSeq(text, i + 2, j)]>> \o SignedRuns(text, j)
         ELSE <<[literal |-> FALSE]>> \o SignedRuns(text, i + 1)
    ELSE LET j == DigitRunEnd(text, i)
         IN  <<[literal |-> TRUE, negative |-> FALSE,
                digits |-> SubSeq(text, i + 1, j)]>> \o SignedRuns(text, j)

\* a run of digits without its leading zeros
RECURSIVE StripZeros(_)
StripZeros(digits) ==
    IF digits # "" /\ SubSeq(digits, 1, 1) = "0"
    THEN StripZeros(SubSeq(digits, 2, Len(digits))) ELSE digits

\* the decimal form of the value of a signed run of digits
DecimalOf(negative, digits) ==
    LET z == StripZeros(digits)
    IN  IF z = "" THEN "0" ELSE IF negative THEN "-" \o z ELSE z

\* the token is the one the claim gives for the run
TokenIs(tok, run) ==
    IF run.literal
    THEN tok.type = "I" /\ ToString(tok.val) = DecimalOf(run.negative, run.digits)
    ELSE tok.type = "K" /\ tok.val = "-"

\* C10 as stated, on the texts made of '-', digits and blanks: tokenize
\* returns, in source order, one integer literal with the negated value for
\* every '-' that a digit follows and the digits after it, the keyword '-'
\* for every other '-', and one nonnegative literal for every other maximal
\* run of digits.
C10_AsStated ==
    (pc # "tokenize" /\ OnlySignsDigitsBlanks(line)) =>
        /\ pc = "parse"
        /\ Len(tokens) = Len(SignedRuns(line, 0))
        /\ \A k \in 1..Len(tokens) : TokenIs(tokens[k], SignedRuns(line, 0)[k])

-----------------------------------------------------------------------------
(* C11 *)

\* the tokens a production has after its keyword: "E" an expression, "V"
\* the expression that must be a Var, any other string a delimiter
Productions ==
    [k \in {"-", "*", "/", "<"} |-> <<"E", "E", ")">>]
    @@ ("if" :> <<"E", "then", "E", "else", "E", ")">>)
    @@ ("let" :> <<"V", "=", "E", "in", "E", ")">>)

\* no condition has occurred up to token i (counted from 1, not included)
ScanOk(i, var) == [cond |-> "none", next |-> i, var |-> var]

\* the first condition met on the way through the tokens
ScanStops(c) == [cond |-> c]

\* the first condition met by one expression from token i on: "empty" no
\* token where one is required, "delimiter" an expected delimiter missing
\* or different, "head" the token after ( is not the keyword of a
\* production, "letvar" the first sub-expression of a let is not a Var,
\* "leading" the expression starts with a keyword other than (
RECURSIVE ScanExpr(_, _)
RECURSIVE ScanItems(_, _, _, _)
ScanExpr(toks, i) ==
    IF i > Len(toks) THEN ScanStops("empty")
    ELSE IF toks[i].type \in {"N", "I", "B"} THEN ScanOk(i + 1, toks[i].type = "N")
    ELSE IF toks[i].val # "(" THEN ScanStops("leading")
    ELSE IF i + 1 > Len(toks) THEN ScanStops("empty")
    ELSE IF toks[i + 1].type # "K" \/ toks[i + 1].val \notin DOMAIN Productions
    THEN ScanStops("head")
    ELSE ScanItems(toks, i + 2, Productions[toks[i + 1].val], 1)

ScanItems(toks, i, items, k) ==
    IF k > Len(items) THEN ScanOk(i, FALSE)
    ELSE IF items[k] \in {"E", "V"}
    THEN LET r == ScanExpr(toks, i)
         IN  IF r.cond # "none" THEN r
             ELSE IF items[k] = "V" /\ ~r.var THEN ScanStops("letvar")
             ELSE ScanItems(toks, r.next, items, k + 1)
    ELSE IF i > Len(toks) \/ toks[i].type # "K" \/ toks[i].val # items[k]
    THEN ScanStops("delimiter")
    ELSE ScanItems(toks, i + 1, items, k + 1)

\* Sub, Mul, Div and Lt nodes have exactly the children n1 and n2, If and
\* Let nodes exactly n1, n2 and n3, and the leaves none
WellShaped(n) ==
    \A k \in 1..Len(dfs(n)) :
        LET d == dfs(n)[k]
        IN  IF d.type \in TwoChildren
            THEN DOMAIN d = {"type", "n1", "n2", "number"}
            ELSE IF d.type \in ThreeChildren
            THEN DOMAIN d = {"type", "n1", "n2", "n3", "number"}
            ELSE /\ d.type \in {"Var", "Int", "Bool"}
                 /\ DOMAIN d = {"type", "val", "number"}

\* s is written on std::cerr and starts as a syntax error
IsSyntaxError(s) == Len(s) > 14 /\ SubSeq(s, 1, 14) = "Syntax Error: "

\* parse, given the tokens, dies with a syntax error and returns nothing
\* when the first condition met is one of conds, and otherwise returns a
\* well-shaped tree whose tokens, left to right, are the tokens consumed
SyntaxErrorsAre(conds) ==
    Parse =>
        LET s == ScanExpr(tokens, 1)
        IN  IF s.cond \in conds
            THEN /\ pc' = "exited"
                 /\ root' = root
                 /\ Len(err') = 1 /\ IsSyntaxError(err'[1])
            ELSE /\ pc' = "typecheck"
                 /\ err' = << >>
                 /\ WellShaped(root')
                 /\ s.cond = "none" =>
                        TokensOf(root') = SubSeq(tokens, 1, s.next - 1)

\* C11 as stated: parse ends in a fatal syntax error and returns no AST
\* whenever a token is missing where one is required, an expected delimiter
\* is missing or different, the token after ( is not one of - * / < if let,
\* or the first sub-expression of a let is not a Var; when none of these
\* occurs it returns a tree with two children under Sub/Mul/Div/Lt and
\* three under If/Let, built from the tokens in left-to-right order.
C11_AsStated ==
    [][SyntaxErrorsAre({"empty", "delimiter", "head", "letvar"})]_vars

\* C11, amended: the fatal syntax errors are those of C11 and one more, an
\* expression that starts with a keyword other than ( ; when none of them
\* occurs parse returns the tree as stated.
C11_SyntaxErrors ==
    [][SyntaxErrorsAre({"empty", "delimiter", "head", "letvar", "leading"})]_vars

\* parse has died on ( if x then 1 in 1 ), where `in' stands for `else'
C11_Witness ==
    /\ pc = "exited"
    /\ tokens = [TokensOf(new_If(new_Var("x"), new_Int(1), new_Int(1)))
                     EXCEPT ![6] = new_K("in")]
    /\ err = <<"Syntax Error: missing 'else' in (if <expr1> then <expr2> else <expr3>)">>

-----------------------------------------------------------------------------
(* C12 *)

\* INT and BOOL are in one class of the closure of the generated constraints
IntBoolConflict == BOOL(counter) \in ClassOf(INT(counter), constraints)

\* the label INT, BOOL or generic that the closure gives to an id
ClosureLabel(id) ==
    IF id \in ClassOf(INT(counter), constraints) THEN "INT"
    ELSE IF id \in ClassOf(BOOL(counter), constraints) THEN "BOOL"
    ELSE "generic"

\* the label INT, BOOL or generic that typecheck has reported
ReportedLabel(s) ==
    IF s \in {"INT", "BOOL"} THEN s
    ELSE IF Len(s) > 9 /\ SubSeq(s, 1, 9) = "GENERICS-" THEN "generic"
    ELSE "none"

\* C12: typecheck ends in a type error exactly when INT and BOOL are in one
\* class of the reflexive-symmetric-transitive closure of the generated
\* constraints; when it succeeds, a variable is reported INT exactly when
\* its id is in INT's class, BOOL exactly when it is in BOOL's class, and
\* generic otherwise, so that ( - x 1 ) and ( < x 1 ) report x as INT.
C12_ErrorIffConflict ==
    /\ pc = "exited" =>
           /\ IntBoolConflict
           /\ Len(err) = 1 /\ err[1] \in TypeErrorMessages
           /\ ret = << >>
    /\ (pc = "solve" /\ ci > Len(constraints)) => ~IntBoolConflict
    /\ pc \in {"returned", "getline"} =>
           /\ ~IntBoolConflict
           /\ err = << >>
           /\ DOMAIN ret = Names
           /\ \A name \in Names :
                  ReportedLabel(ret[name]) =
                      ClosureLabel(variable_number_map[name])
           /\ (root.type \in {"Sub", "Lt"} /\ root.n1.type = "Var"
                  /\ root.n2.type = "Int") => ret = (root.n1.val :> "INT")

\* typecheck has returned for ( < x 1 ), with x as INT
C12_Witness ==
    /\ pc = "returned"
    /\ root.type = "Lt"
    /\ root.n1.type = "Var" /\ root.n1.val = "x"
    /\ root.n2.type = "Int" /\ root.n2.val = 1
    /\ ret = ("x" :> "INT")

-----------------------------------------------------------------------------
(* C13 *)

\* the tokens of every expression of up to MaxParseNodes nodes
ExprTokens ==
    {TokensOf(t) : t \in UNION {TreesOfSize(n) : n \in 1..MaxParseNodes}}

\* C13: when the first k tokens are the tokens of a complete expression,
\* parse returns the AST of those k tokens without a syntax error,
\* whatever tokens follow, and main goes on to typecheck with that AST.
C13_PrefixOnly ==
    [][Parse =>
          \A k \in 1..Len(tokens) :
              SubSeq(tokens, 1, k) \in ExprTokens =>
                  /\ pc' = "typecheck"
                  /\ err' = << >>
                  /\ WellShaped(root')
                  /\ TokensOf(root') = SubSeq(tokens, 1, k)]_vars

\* the line `x )' has been parsed as x, and typecheck has numbered that x
C13_Witness ==
    /\ pc = "generate"
    /\ line = "x )"
    /\ root = [new_Var("x") EXCEPT !.number = 0]
    /\ err = << >>

====
